---------------------------- MODULE Spec2Model ----------------------------
(***************************************************************************)
(* Model of the counter synchronisation engine of esp32-s3/src/main.rs:    *)
(* the LoRa receiver thread (lines 194-232), the POST /add and POST /sub   *)
(* handlers (lines 252-290, 295-333), the three mutexes they share         *)
(* (lines 185-187) and the SX126x transceiver they drive.                  *)
(*                                                                         *)
(* Granularity: one action per blocking point (a Mutex::lock call) and per *)
(* group of transceiver commands issued between two blocking points.  The  *)
(* transceiver itself (frame arrival, end of a transmission) is a          *)
(* concurrent process.                                                     *)
(*                                                                         *)
(* Mutex::lock fails only on a poisoned mutex, i.e. after a thread         *)
(* panicked while holding it.  The only panics possible while a guard is   *)
(* held are the arithmetic overflow panics of lines 254 and 297, and a     *)
(* panic on this target aborts the firmware, so no thread ever observes a  *)
(* poisoned mutex: lock is modelled as blocking, and a panic as the node   *)
(* halting (crashed).                                                      *)
(*                                                                         *)
(* Spec and FairSpec are one node with its threads interleaved; PairSpec   *)
(* is several nodes on one channel, each handler and poll iteration taken  *)
(* as one step; CodecSpec is the frame format on its own.                  *)
(***************************************************************************)
EXTENDS Integers, Sequences, FiniteSets, TLC

(***************************************************************************)
(* Bounds of the model.                                                    *)
(***************************************************************************)
\* number of POST /add and POST /sub requests that arrive
NumRequests == 2
\* number of frames the radio receives from the air
MaxFrames == 2
\* width of the counter word in the model (32 in the program)
WordBits == 4

(***************************************************************************)
(* Program constants.                                                      *)
(***************************************************************************)
\* Mutex::new(0u32): the counter is an unsigned integer that wraps at
\* 2^32.  TLC's integers are 32-bit signed, so the model keeps the unsigned
\* arithmetic (wrap-around, parse overflow) at the reduced width WordBits.
U32Modulus == 2 ^ WordBits
U32Max == U32Modulus - 1
\* set_payload_len(buffer.len() as u8)
U8Modulus == 256
\* identities of the threads that take the mutexes
Unlocked == -1
RxThread == 0
Requests == 1 .. NumRequests

(***************************************************************************)
(* Option<u32>, as returned by str::parse::<u32>().ok()                    *)
(***************************************************************************)
None == [some |-> FALSE, val |-> 0]
Some(v) == [some |-> TRUE, val |-> v]

(***************************************************************************)
(* Text.  A frame is a sequence of bytes.                                  *)
(***************************************************************************)
\* "Count: "
CountPrefix == <<67, 111, 117, 110, 116, 58, 32>>
\* "Battery: 3.7V"
BatteryFrame == <<66, 97, 116, 116, 101, 114, 121, 58, 32, 51, 46, 55, 86>>
AsciiZero == 48
AsciiPlus == 43

\* the decimal digits of n, least significant first
RECURSIVE DecimalDigitsReversed(_)
DecimalDigitsReversed(n) ==
    IF n < 10 THEN <<AsciiZero + n>>
    ELSE <<AsciiZero + (n % 10)>> \o DecimalDigitsReversed(n \div 10)

\* the decimal digits of n, most significant first: format!("{}", n)
RECURSIVE DecimalDigits(_)
DecimalDigits(n) ==
    IF n < 10 THEN <<AsciiZero + n>>
    ELSE Append(DecimalDigits(n \div 10), AsciiZero + (n % 10))

\* format!("Count: {}", *count).as_bytes()
Encode(v) == CountPrefix \o DecimalDigits(v)

IsCont(b) == b >= 128 /\ b <= 191

\* std::str::from_utf8(&buffer).is_ok()
RECURSIVE ValidUtf8(_)
ValidUtf8(bytes) ==
    IF bytes = <<>> THEN TRUE
    ELSE LET b0 == bytes[1]
             n  == Len(bytes)
             rest(k) == SubSeq(bytes, k + 1, n)
         IN  IF b0 < 128 THEN ValidUtf8(rest(1))
             ELSE IF b0 >= 194 /\ b0 <= 223
                  THEN n >= 2 /\ IsCont(bytes[2]) /\ ValidUtf8(rest(2))
             ELSE IF b0 >= 224 /\ b0 <= 239
                  THEN /\ n >= 3
                       /\ IsCont(bytes[2]) /\ IsCont(bytes[3])
                       /\ (b0 = 224 => bytes[2] >= 160)
                       /\ (b0 = 237 => bytes[2] <= 159)
                       /\ ValidUtf8(rest(3))
             ELSE IF b0 >= 240 /\ b0 <= 244
                  THEN /\ n >= 4
                       /\ IsCont(bytes[2]) /\ IsCont(bytes[3]) /\ IsCont(bytes[4])
                       /\ (b0 = 240 => bytes[2] >= 144)
                       /\ (b0 = 244 => bytes[2] <= 143)
                       /\ ValidUtf8(rest(4))
             ELSE FALSE

\* msg.starts_with("Count: ")
StartsWithCount(bytes) ==
    /\ Len(bytes) >= Len(CountPrefix)
    /\ SubSeq(bytes, 1, Len(CountPrefix)) = CountPrefix

IsDigit(b) == b >= AsciiZero /\ b <= AsciiZero + 9

\* the value of a sequence of decimal digits
RECURSIVE DigitsValue(_)
DigitsValue(ds) ==
    IF ds = <<>> THEN 0
    ELSE 10 * DigitsValue(SubSeq(ds, 1, Len(ds) - 1)) + (ds[Len(ds)] - AsciiZero)

\* str::parse::<u32>(): an optional leading '+', then one or more decimal
\* digits whose value fits 32 bits; everything else is an error
ParseU32(s) ==
    IF s = <<>> THEN None
    ELSE LET ds == IF s[1] = AsciiPlus THEN SubSeq(s, 2, Len(s)) ELSE s
         IN  IF ds = <<>> THEN None
             ELSE IF \E i \in 1 .. Len(ds) : ~IsDigit(ds[i]) THEN None
             ELSE IF DigitsValue(ds) > U32Max THEN None
             ELSE Some(DigitsValue(ds))

\* the suffix sliced one byte early, so that it starts with the blank
DecodeSliceEarly(bytes) ==
    IF ~ValidUtf8(bytes) THEN None
    ELSE IF ~StartsWithCount(bytes) THEN None
    ELSE ParseU32(SubSeq(bytes, Len(CountPrefix), Len(bytes)))

\* lines 206-209: from_utf8, starts_with("Count: "), parse::<u32>()
Decode(bytes) ==
    IF ~ValidUtf8(bytes) THEN None
    ELSE IF ~StartsWithCount(bytes) THEN None
    ELSE ParseU32(SubSeq(bytes, Len(CountPrefix) + 1, Len(bytes)))

(***************************************************************************)
(* Frames the radio can pick up from the shared channel.                   *)
(***************************************************************************)
\* "Count: x"
NonNumericFrame == CountPrefix \o <<120>>
\* 0xFF never occurs in UTF-8
InvalidTextFrame == CountPrefix \o <<255>>
AirFrames ==
    { Encode(7), Encode(U32Max), BatteryFrame, NonNumericFrame, InvalidTextFrame }


(***************************************************************************)
(* State.                                                                  *)
(***************************************************************************)
VARIABLES
    counter,        \* the u32 inside Mutex `counter` (line 185)
    crashed,        \* a panic aborted the firmware
    counterLock,    \* holder of Mutex `counter`
    displayLock,    \* holder of Mutex `display` (line 186)
    loraLock,       \* holder of Mutex `lora` (line 187)
    fb,             \* the count the display shows (drawn and flushed)
    mode,           \* transceiver mode: "Idle", "Receiving", "Transmitting"
    irq,            \* the interrupt flags the program reads: rx (RxDone), tx (TxDone)
    rxBuf,          \* payload of the last frame the transceiver received
    onAir,          \* the frame being transmitted, <<>> when none is
    rx,             \* the receiver thread: position, locals, record of its iteration
    req,            \* the /add and /sub requests: position, record of what each did
    framesLeft,     \* frames still to arrive from the air
    peers,          \* two nodes on one channel (PairSpec); untouched in Spec
    codec           \* one payload put through encode and decode (CodecSpec)

\* the state of one node
nodeVars ==
    << counter, crashed, counterLock, displayLock, loraLock,
       fb, mode, irq, rxBuf, onAir, rx, req, framesLeft >>

vars == << nodeVars, peers, codec >>

radioVars == << mode, irq, rxBuf, onAir >>

\* Frames are numbered as they arrive.  The record of the frame the receiver
\* last applied, and of whether the clear of RxDone that followed succeeded,
\* outlives the iteration; nothing in the program reads it.
NoneApplied == [id |-> 0, cleared |-> FALSE]

\* the receiver's locals at the top of an iteration (line 196)
RxIdle ==
    [ pc       |-> "sleep",
      polled   |-> FALSE,                          \* get_irq_status() succeeded (line 199)
      status   |-> [rx |-> FALSE, tx |-> FALSE],   \* the flags it returned
      got      |-> FALSE,                          \* read_buffer succeeded (line 205)
      buffer   |-> <<>>,                           \* `buffer` (line 204)
      newCount |-> None,                           \* `new_count` (line 209)
      wrote    |-> <<>>,                           \* values this iteration stored in the counter
      drew     |-> <<>>,                           \* values this iteration drew
      clearRxOk |-> FALSE,                         \* result of line 222
      clearTxOk |-> FALSE,                         \* result of line 226
      rearmOk   |-> FALSE,                         \* result of line 227
      frame    |-> 0,                              \* which frame `buffer` holds (0: none)
      applied  |-> NoneApplied ]                   \* the frame last stored in the counter

\* a request that has not arrived yet
ReqIdle ==
    [ pc    |-> "idle",
      kind  |-> "none",     \* "add" (POST /add) or "sub" (POST /sub)
      wrote |-> <<>>,       \* values the request stored in the counter
      drew  |-> <<>>,       \* values the request drew
      sent  |-> <<>>,       \* frames the request handed to set_tx
      radio |-> "none",     \* outcome of the radio commands (lines 275-283)
      reply |-> None ]      \* the count written into the response (line 286)

\* number of nodes within radio range of each other, and of POST /add and
\* POST /sub requests they serve between them
NumNodes == 2
PairRequests == 3
Nodes == 1 .. NumNodes

\* a node of the two-node system after start-up: the shared state of lines
\* 175-187, without the mutexes
NodeStart ==
    [ counter |-> 0,
      crashed |-> FALSE,
      fb      |-> 0,
      mode    |-> "Receiving",
      irq     |-> [rx |-> FALSE, tx |-> FALSE],
      rxBuf   |-> <<>>,
      onAir   |-> <<>> ]

\* the two-node system: the nodes, the requests still to come, and whether
\* so far every command succeeded and every frame handed to a transceiver
\* reached the other node
PeersStart ==
    [ node |-> [n \in Nodes |-> NodeStart],
      left |-> PairRequests,
      clean |-> TRUE ]

\* no payload to work on
CodecOff == [pc |-> "off", value |-> 0, bytes |-> <<>>, result |-> None]

\* the node after run_app has set it up
InitNode ==
    /\ counter = 0                          \* line 185
    /\ crashed = FALSE
    /\ counterLock = Unlocked
    /\ displayLock = Unlocked
    /\ loraLock = Unlocked
    /\ fb = 0                               \* lines 180-181
    /\ mode = "Receiving"                   \* line 175
    /\ irq = [rx |-> FALSE, tx |-> FALSE]
    /\ rxBuf = <<>>
    /\ onAir = <<>>
    /\ rx = RxIdle
    /\ req = [r \in Requests |-> ReqIdle]
    /\ framesLeft = MaxFrames

Init ==
    /\ InitNode
    /\ peers = PeersStart
    /\ codec = CodecOff

(***************************************************************************)
(* Counter arithmetic.                                                     *)
(***************************************************************************)
\* the increment lost: the counter keeps its value
IncrementLost(c) == c

\* `*count += 1` (line 254) where it does not panic
Increment(c) == (c + 1) % U32Modulus

\* `*count -= 1` (line 297) where it does not panic
Decrement(c) == (c + U32Modulus - 1) % U32Modulus

(***************************************************************************)
(* The display (draw_count, lines 345-363, and flush).                     *)
(***************************************************************************)
\* the display left as it was
DrawCountStale ==
    fb' = fb

\* draw_count(&mut *disp, *count, &ip); let _ = disp.flush();
\* The result of flush is discarded and nothing in the program depends on it.
DrawCount ==
    fb' = counter

(***************************************************************************)
(* POST /add and POST /sub (lines 252-290 and 295-333).  The two handlers  *)
(* differ only in the statement that changes the counter.                  *)
(***************************************************************************)
\* requests are numbered in the order in which they take the counter mutex
Arrived(q) == q \in Requests => req[q].pc # "idle"

\* What `*count += 1` and `*count -= 1` do when the result does not fit: a
\* build with overflow checks panics, a build without them wraps.  Each
\* overflow takes either outcome, which covers both builds.
OverflowOutcomes == { "panic", "wrap" }

\* counter_add.lock().unwrap(); *count += 1; (lines 253-254)
AddLockCounter(r) ==
    /\ ~crashed
    /\ req[r].pc = "idle"
    /\ Arrived(r - 1)
    /\ counterLock = Unlocked
    /\ \E out \in OverflowOutcomes :
         IF counter = U32Max /\ out = "panic"
         THEN /\ crashed' = TRUE
              /\ UNCHANGED << counter, counterLock, req >>
         ELSE /\ counterLock' = r
              /\ counter' = Increment(counter)
              /\ req' = [req EXCEPT ![r].pc = "lockdisplay", ![r].kind = "add",
                                    ![r].wrote = Append(@, counter')]
              /\ UNCHANGED crashed
    /\ UNCHANGED << codec, peers, displayLock, loraLock, fb, radioVars, rx, framesLeft >>

\* counter_sub.lock().unwrap(); *count -= 1; (lines 296-297)
SubLockCounter(r) ==
    /\ ~crashed
    /\ req[r].pc = "idle"
    /\ Arrived(r - 1)
    /\ counterLock = Unlocked
    /\ \E out \in OverflowOutcomes :
         IF counter = 0 /\ out = "panic"
         THEN /\ crashed' = TRUE
              /\ UNCHANGED << counter, counterLock, req >>
         ELSE /\ counterLock' = r
              /\ counter' = Decrement(counter)
              /\ req' = [req EXCEPT ![r].pc = "lockdisplay", ![r].kind = "sub",
                                    ![r].wrote = Append(@, counter')]
              /\ UNCHANGED crashed
    /\ UNCHANGED << codec, peers, displayLock, loraLock, fb, radioVars, rx, framesLeft >>

\* display_add.lock() (lines 257, 300)
HandlerLockDisplay(r) ==
    /\ ~crashed
    /\ req[r].pc = "lockdisplay"
    /\ displayLock = Unlocked
    /\ displayLock' = r
    /\ req' = [req EXCEPT ![r].pc = "draw"]
    /\ UNCHANGED << codec, peers, counter, crashed, counterLock, loraLock,
                    fb, radioVars, rx, framesLeft >>

\* draw_count, flush, and the display guard dropped (lines 258-260, 301-303)
HandlerDraw(r) ==
    /\ ~crashed
    /\ req[r].pc = "draw"
    /\ DrawCount
    /\ displayLock' = Unlocked
    /\ req' = [req EXCEPT ![r].pc = "locklora", ![r].drew = Append(@, fb')]
    /\ UNCHANGED << codec, peers, counter, crashed, counterLock, loraLock,
                    radioVars, rx, framesLeft >>

\* lora_add.lock() (lines 263, 306)
HandlerLockLora(r) ==
    /\ ~crashed
    /\ req[r].pc = "locklora"
    /\ loraLock = Unlocked
    /\ loraLock' = r
    /\ req' = [req EXCEPT ![r].pc = "send"]
    /\ UNCHANGED << codec, peers, counter, crashed, counterLock, displayLock,
                    fb, radioVars, rx, framesLeft >>

\* the outcomes of set_packet_params, write_buffer, set_tx (lines 275-283)
RadioOutcomes == { "params_failed", "write_failed", "tx_failed", "sent" }

\* the payload length one byte short
TransmittedShort(buffer) == SubSeq(buffer, 1, (Len(buffer) - 1) % U8Modulus)

\* the frame the transceiver sends for `buffer`: set_payload_len(buffer.len()
\* as u8) bytes of what write_buffer(0, buffer) stored
Transmitted(buffer) == SubSeq(buffer, 1, Len(buffer) % U8Modulus)

\* the results of the radio commands unwrapped: a failed command panics
HandlerSendUnwrap(r) ==
    /\ ~crashed
    /\ req[r].pc = "send"
    /\ \E out \in RadioOutcomes, respOk \in BOOLEAN :
         LET buffer == Encode(counter)
         IN  /\ mode' = IF out = "sent" THEN "Transmitting" ELSE mode
             /\ onAir' = IF out = "sent" THEN Transmitted(buffer) ELSE onAir
             /\ crashed' = (out # "sent")
             /\ req' = [req EXCEPT
                          ![r].pc = "return",
                          ![r].radio = out,
                          ![r].sent = IF out = "sent"
                                      THEN Append(@, Transmitted(buffer))
                                      ELSE @,
                          ![r].reply = IF respOk /\ out = "sent"
                                       THEN Some(counter) ELSE None]
    /\ loraLock' = Unlocked
    /\ UNCHANGED << codec, peers, counter, counterLock, displayLock, fb, irq, rxBuf,
                    rx, framesLeft >>

\* lines 264-288 (307-331): encode, set_packet_params, write_buffer, set_tx,
\* each command tried only if the one before succeeded; the lora guard
\* dropped; then the response, which carries *count if it can be written
HandlerSend(r) ==
    /\ ~crashed
    /\ req[r].pc = "send"
    /\ \E out \in RadioOutcomes, respOk \in BOOLEAN :
         LET buffer == Encode(counter)
         IN  /\ mode' = IF out = "sent" THEN "Transmitting" ELSE mode
             /\ onAir' = IF out = "sent" THEN Transmitted(buffer) ELSE onAir
             /\ req' = [req EXCEPT
                          ![r].pc = "return",
                          ![r].radio = out,
                          ![r].sent = IF out = "sent"
                                      THEN Append(@, Transmitted(buffer))
                                      ELSE @,
                          ![r].reply = IF respOk THEN Some(counter) ELSE None]
    /\ loraLock' = Unlocked
    /\ UNCHANGED << codec, peers, counter, crashed, counterLock, displayLock, fb, irq, rxBuf,
                    rx, framesLeft >>

\* a request that has returned: only its kind and the outcome of its radio
\* commands are remembered
ReqDone(kind, radio) ==
    [ReqIdle EXCEPT !.pc = "done", !.kind = kind, !.radio = radio]

\* the handler returns and the counter guard is dropped (lines 289-290,
\* 332-333)
HandlerReturn(r) ==
    /\ ~crashed
    /\ req[r].pc = "return"
    /\ req' = [req EXCEPT ![r] = ReqDone(req[r].kind, req[r].radio)]
    /\ counterLock' = Unlocked
    /\ UNCHANGED << codec, peers, counter, crashed, displayLock, loraLock, fb, radioVars, rx,
                    framesLeft >>

(***************************************************************************)
(* The LoRa receiver thread (lines 194-232).                               *)
(***************************************************************************)
\* thread::sleep(100 ms); lora_rx.lock() (lines 196-198)
RxLockLora ==
    /\ ~crashed
    /\ rx.pc = "sleep"
    /\ loraLock = Unlocked
    /\ loraLock' = RxThread
    /\ rx' = [rx EXCEPT !.pc = "status"]
    /\ UNCHANGED << codec, peers, counter, crashed, counterLock, displayLock,
                    fb, radioVars, req, framesLeft >>

\* where the iteration goes once the RxDone part (lines 200-223) is over
AfterRxDone(status) == IF status.tx THEN "txdone" ELSE "unlock"

\* lora.get_irq_status() (line 199)
RxGetStatus ==
    /\ ~crashed
    /\ rx.pc = "status"
    /\ \E ok \in BOOLEAN :
         IF ok
         THEN LET status == [rx |-> irq.rx, tx |-> irq.tx]
              IN  rx' = [rx EXCEPT !.polled = TRUE,
                                   !.status = status,
                                   !.pc = IF status.rx THEN "read"
                                          ELSE AfterRxDone(status)]
         ELSE rx' = [rx EXCEPT !.pc = "unlock"]
    /\ UNCHANGED << codec, peers, counter, crashed, counterLock, displayLock,
                    loraLock, fb, radioVars, req, framesLeft >>

\* lines 201-209: get_rx_buffer_status, read_buffer, from_utf8, starts_with,
\* parse::<u32>()
RxReadFrame ==
    /\ ~crashed
    /\ rx.pc = "read"
    /\ \E ok \in BOOLEAN :
         IF ok
         THEN LET new_count == Decode(rxBuf)
              IN  rx' = [rx EXCEPT !.got = TRUE,
                                   !.buffer = rxBuf,
                                   !.frame = MaxFrames - framesLeft,
                                   !.newCount = new_count,
                                   !.pc = IF new_count.some THEN "lockcounter"
                                          ELSE "clearrx"]
         ELSE rx' = [rx EXCEPT !.pc = "clearrx"]
    /\ UNCHANGED << codec, peers, counter, crashed, counterLock, displayLock,
                    loraLock, fb, radioVars, req, framesLeft >>

\* the remote value merged with the local one instead of overwriting it
RxLockCounterMerge ==
    /\ ~crashed
    /\ rx.pc = "lockcounter"
    /\ counterLock = Unlocked
    /\ counterLock' = RxThread
    /\ counter' = IF counter > rx.newCount.val THEN counter ELSE rx.newCount.val
    /\ rx' = [rx EXCEPT !.pc = "lockdisplay", !.wrote = Append(@, counter'),
                        !.applied = [id |-> rx.frame, cleared |-> FALSE]]
    /\ UNCHANGED << codec, peers, crashed, displayLock, loraLock, fb, radioVars, req, framesLeft >>

\* counter_rx.lock(); *count = new_count; (lines 210-211)
RxLockCounter ==
    /\ ~crashed
    /\ rx.pc = "lockcounter"
    /\ counterLock = Unlocked
    /\ counterLock' = RxThread
    /\ counter' = rx.newCount.val
    /\ rx' = [rx EXCEPT !.pc = "lockdisplay", !.wrote = Append(@, counter'),
                        !.applied = [id |-> rx.frame, cleared |-> FALSE]]
    /\ UNCHANGED << codec, peers, crashed, displayLock, loraLock, fb,
                    radioVars, req, framesLeft >>

\* the counter guard dropped before the display is locked
RxLockDisplayUnguarded ==
    /\ ~crashed
    /\ rx.pc = "lockdisplay"
    /\ displayLock = Unlocked
    /\ displayLock' = RxThread
    /\ counterLock' = Unlocked
    /\ rx' = [rx EXCEPT !.pc = "draw"]
    /\ UNCHANGED << codec, peers, counter, crashed, loraLock,
                    fb, radioVars, req, framesLeft >>

\* display_rx.lock() (line 212)
RxLockDisplay ==
    /\ ~crashed
    /\ rx.pc = "lockdisplay"
    /\ displayLock = Unlocked
    /\ displayLock' = RxThread
    /\ rx' = [rx EXCEPT !.pc = "draw"]
    /\ UNCHANGED << codec, peers, counter, crashed, counterLock, loraLock,
                    fb, radioVars, req, framesLeft >>

\* the value just applied sent on after it is drawn
RxDrawRebroadcast ==
    /\ ~crashed
    /\ rx.pc = "draw"
    /\ DrawCount
    /\ displayLock' = Unlocked
    /\ counterLock' = Unlocked
    /\ mode' = "Transmitting"
    /\ onAir' = Transmitted(Encode(counter))
    /\ rx' = [rx EXCEPT !.pc = "clearrx", !.drew = Append(@, fb')]
    /\ UNCHANGED << codec, peers, counter, crashed, loraLock, irq, rxBuf,
                    req, framesLeft >>

\* draw_count, flush; the display guard, then the counter guard dropped
\* (lines 213-216)
RxDraw ==
    /\ ~crashed
    /\ rx.pc = "draw"
    /\ DrawCount
    /\ displayLock' = Unlocked
    /\ counterLock' = Unlocked
    /\ rx' = [rx EXCEPT !.pc = "clearrx", !.drew = Append(@, fb')]
    /\ UNCHANGED << codec, peers, counter, crashed, loraLock, radioVars,
                    req, framesLeft >>

\* the TxDone flag cleared in place of the RxDone flag
RxClearWrongFlag ==
    /\ ~crashed
    /\ rx.pc = "clearrx"
    /\ \E ok \in BOOLEAN :
         /\ irq' = IF ok THEN [irq EXCEPT !.tx = FALSE] ELSE irq
         /\ rx' = [rx EXCEPT !.clearRxOk = ok, !.pc = AfterRxDone(rx.status),
                             !.applied.cleared = IF rx.wrote # <<>> THEN ok ELSE @]
    /\ UNCHANGED << codec, peers, counter, crashed, counterLock, displayLock, loraLock, fb,
                    mode, rxBuf, onAir, req, framesLeft >>

\* the clear of RxDone left out
RxClearRxDoneSkipped ==
    /\ ~crashed
    /\ rx.pc = "clearrx"
    /\ rx' = [rx EXCEPT !.clearRxOk = TRUE, !.pc = AfterRxDone(rx.status),
                        !.applied.cleared = IF rx.wrote # <<>> THEN TRUE ELSE @]
    /\ UNCHANGED << codec, peers, counter, crashed, counterLock, displayLock,
                    loraLock, fb, radioVars, req, framesLeft >>

\* let _ = lora.clear_irq_status(RxDone) (line 222)
RxClearRxDone ==
    /\ ~crashed
    /\ rx.pc = "clearrx"
    /\ \E ok \in BOOLEAN :
         /\ irq' = IF ok THEN [irq EXCEPT !.rx = FALSE] ELSE irq
         /\ rx' = [rx EXCEPT !.clearRxOk = ok, !.pc = AfterRxDone(rx.status),
                             !.applied.cleared = IF rx.wrote # <<>> THEN ok ELSE @]
    /\ UNCHANGED << codec, peers, counter, crashed, counterLock, displayLock,
                    loraLock, fb, mode, rxBuf, onAir, req, framesLeft >>

\* the RxDone flag cleared in place of the TxDone flag
RxTxDoneWrongFlag ==
    /\ ~crashed
    /\ rx.pc = "txdone"
    /\ \E clearOk \in BOOLEAN, rearmOk \in BOOLEAN :
         /\ irq' = IF clearOk THEN [irq EXCEPT !.rx = FALSE] ELSE irq
         /\ mode' = IF rearmOk THEN "Receiving" ELSE mode
         /\ onAir' = IF rearmOk THEN <<>> ELSE onAir
         /\ rx' = [rx EXCEPT !.clearTxOk = clearOk, !.rearmOk = rearmOk,
                             !.pc = "unlock"]
    /\ UNCHANGED << codec, peers, counter, crashed, counterLock, displayLock, loraLock, fb,
                    rxBuf, req, framesLeft >>

\* let _ = lora.clear_irq_status(TxDone); let _ = lora.set_rx(continuous_rx())
\* (lines 225-228).  set_rx switches the transceiver to receive from any
\* mode: a transmission that a later request has started in the meantime is
\* cut off.
RxTxDone ==
    /\ ~crashed
    /\ rx.pc = "txdone"
    /\ \E clearOk \in BOOLEAN, rearmOk \in BOOLEAN :
         /\ irq' = IF clearOk THEN [irq EXCEPT !.tx = FALSE] ELSE irq
         /\ mode' = IF rearmOk THEN "Receiving" ELSE mode
         /\ onAir' = IF rearmOk THEN <<>> ELSE onAir
         /\ rx' = [rx EXCEPT !.clearTxOk = clearOk, !.rearmOk = rearmOk,
                             !.pc = "unlock"]
    /\ UNCHANGED << codec, peers, counter, crashed, counterLock, displayLock,
                    loraLock, fb, rxBuf, req, framesLeft >>

\* the lora guard and the iteration's locals dropped at the end of the
\* iteration (line 230)
RxUnlock ==
    /\ ~crashed
    /\ rx.pc = "unlock"
    /\ loraLock' = Unlocked
    /\ rx' = [RxIdle EXCEPT !.applied = rx.applied]
    /\ UNCHANGED << codec, peers, counter, crashed, counterLock, displayLock,
                    fb, radioVars, req, framesLeft >>

(***************************************************************************)
(* The SX126x transceiver, as the program configures it: continuous        *)
(* receive (lines 175, 227), transmit with a 2000 ms timeout (lines 279,   *)
(* 322), every interrupt routed (line 164).                                *)
(***************************************************************************)
\* in continuous receive a frame from the air is stored, RxDone is raised and
\* the transceiver keeps receiving
FrameArrives ==
    /\ ~crashed
    /\ mode = "Receiving"
    /\ framesLeft > 0
    /\ \E f \in AirFrames : rxBuf' = f
    /\ irq' = [irq EXCEPT !.rx = TRUE]
    /\ framesLeft' = framesLeft - 1
    /\ UNCHANGED << codec, peers, counter, crashed, counterLock, displayLock,
                    loraLock, fb, mode, onAir, rx, req >>

\* the transmission started by set_tx completes: TxDone is raised and the
\* transceiver falls back to standby
TxCompletes ==
    /\ ~crashed
    /\ mode = "Transmitting"
    /\ mode' = "Idle"
    /\ onAir' = <<>>
    /\ irq' = [irq EXCEPT !.tx = TRUE]
    /\ UNCHANGED << codec, peers, counter, crashed, counterLock, displayLock,
                    loraLock, fb, rxBuf, rx, req, framesLeft >>

\* the 2000 ms of set_tx elapse first: the transceiver falls back to standby
\* and raises Timeout instead of TxDone.  The program never reads or clears
\* the Timeout flag, so it is not part of the state.
TxTimesOut ==
    /\ ~crashed
    /\ mode = "Transmitting"
    /\ mode' = "Idle"
    /\ onAir' = <<>>
    /\ UNCHANGED << codec, peers, counter, crashed, counterLock, displayLock,
                    loraLock, fb, irq, rxBuf, rx, req, framesLeft >>

(***************************************************************************)
(* The system.                                                             *)
(***************************************************************************)
Receiver ==
    \/ RxLockLora
    \/ RxGetStatus
    \/ RxReadFrame
    \/ RxLockCounter
    \/ RxLockDisplay
    \/ RxDraw
    \/ RxClearRxDone
    \/ RxTxDone
    \/ RxUnlock

\* a request that has arrived runs to its end
HandlerRun(r) ==
    \/ HandlerLockDisplay(r)
    \/ HandlerDraw(r)
    \/ HandlerLockLora(r)
    \/ HandlerSend(r)
    \/ HandlerReturn(r)

Transceiver ==
    \/ FrameArrives
    \/ TxCompletes
    \/ TxTimesOut

Next ==
    \/ Receiver
    \/ \E r \in Requests : AddLockCounter(r)
    \/ \E r \in Requests : SubLockCounter(r)
    \/ \E r \in Requests : HandlerRun(r)
    \/ Transceiver

Spec == Init /\ [][Next]_vars

\* Scheduling: the receiver thread and every handler that has started keep
\* being scheduled, a handler that finds the lora mutex free again and again
\* gets it, a transmission ends (by TxDone or by its timeout), and none of
\* the receiver's transceiver commands fails for ever.  Requests and frames
\* arrive when they arrive.
FairSpec ==
    /\ Spec
    /\ WF_vars(Receiver)
    /\ \A r \in Requests : SF_vars(HandlerRun(r))
    /\ WF_vars(TxCompletes \/ TxTimesOut)
    /\ SF_vars(RxGetStatus /\ rx'.polled)
    /\ SF_vars(RxClearRxDone /\ rx'.clearRxOk)
    /\ SF_vars(RxTxDone /\ rx'.clearTxOk /\ rx'.rearmOk)

(***************************************************************************)
(* Several nodes on one channel.  Each node runs the program above; here a *)
(* request handler and a poll iteration of the receiver thread each run    *)
(* from start to end without the other threads of their node in between,   *)
(* which is one of the schedules the program has.  A frame whose           *)
(* transmission completes is stored by every other node that is receiving  *)
(* at that moment.                                                         *)
(***************************************************************************)
\* node n after a handler changed the counter to c, for the outcome `out` of
\* its radio commands: lines 254-283 (297-326)
AfterRequest(n, c, out) ==
    LET nd == peers.node[n]
    IN  [nd EXCEPT !.counter = c,
                   !.fb = c,
                   !.mode = IF out = "sent" THEN "Transmitting" ELSE @,
                   !.onAir = IF out = "sent" THEN Transmitted(Encode(c)) ELSE @]

\* a whole POST /add or POST /sub on node n (lines 252-290, 295-333); `over`
\* says that the arithmetic overflows and `c` is the wrapped result
PeerRequest(n, over, c) ==
    /\ ~peers.node[n].crashed
    /\ peers.left > 0
    /\ \E ovf \in OverflowOutcomes, out \in RadioOutcomes :
         peers' =
           [ node |-> [peers.node EXCEPT
                         ![n] = IF over /\ ovf = "panic"
                                THEN [@ EXCEPT !.crashed = TRUE]
                                ELSE AfterRequest(n, c, out)],
             left |-> peers.left - 1,
             clean |-> /\ peers.clean
                       /\ ~over
                       /\ out = "sent"
                       /\ peers.node[n].mode # "Transmitting" ]
    /\ UNCHANGED << nodeVars, codec >>

PeerAdd(n) ==
    PeerRequest(n, peers.node[n].counter = U32Max,
                Increment(peers.node[n].counter))

PeerSub(n) ==
    PeerRequest(n, peers.node[n].counter = 0,
                Decrement(peers.node[n].counter))

\* node n after the RxDone part of an iteration (lines 200-223)
AfterPollRx(nd, readOk, clearOk) ==
    LET new_count == IF readOk THEN Decode(nd.rxBuf) ELSE None
    IN  [nd EXCEPT !.counter = IF new_count.some THEN new_count.val ELSE @,
                   !.fb = IF new_count.some THEN new_count.val ELSE @,
                   !.irq.rx = IF clearOk THEN FALSE ELSE @]

\* node n after the TxDone part of an iteration (lines 225-228)
AfterPollTx(nd, clearOk, rearmOk) ==
    [nd EXCEPT !.irq.tx = IF clearOk THEN FALSE ELSE @,
               !.mode = IF rearmOk THEN "Receiving" ELSE @,
               !.onAir = IF rearmOk THEN <<>> ELSE @]

\* a whole iteration of the receiver thread of node n (lines 196-230)
PeerPoll(n) ==
    /\ ~peers.node[n].crashed
    /\ \E statusOk, readOk, clearRxOk, clearTxOk, rearmOk \in BOOLEAN :
         LET nd == peers.node[n]
             status == nd.irq
             afterRx == IF status.rx THEN AfterPollRx(nd, readOk, clearRxOk)
                        ELSE nd
             afterTx == IF status.tx THEN AfterPollTx(afterRx, clearTxOk, rearmOk)
                        ELSE afterRx
         IN  peers' =
               [peers EXCEPT
                  !.node[n] = IF statusOk THEN afterTx ELSE @,
                  !.clean = /\ @
                            /\ statusOk
                            /\ status.rx => (readOk /\ clearRxOk)
                            /\ status.tx => /\ clearTxOk
                                            /\ rearmOk
                                            /\ nd.mode # "Transmitting"]
    /\ UNCHANGED << nodeVars, codec >>

\* node m hears (or misses) the frame that node n has finished sending
Hears(m, n) ==
    LET nd == peers.node[m]
    IN  IF m # n /\ nd.mode = "Receiving" /\ ~nd.crashed
        THEN [nd EXCEPT !.rxBuf = peers.node[n].onAir, !.irq.rx = TRUE]
        ELSE nd

\* the transmission of node n completes: TxDone on n, the frame in the
\* buffer of every node that was receiving
PeerTxCompletes(n) ==
    /\ peers.node[n].mode = "Transmitting"
    /\ ~peers.node[n].crashed
    /\ peers' =
         [peers EXCEPT
            !.node = [m \in Nodes |->
                        IF m = n
                        THEN [peers.node[n] EXCEPT !.mode = "Idle",
                                                   !.onAir = <<>>,
                                                   !.irq.tx = TRUE]
                        ELSE Hears(m, n)],
            !.clean = /\ @
                      /\ \A m \in Nodes \ {n} :
                            peers.node[m].mode = "Receiving" /\ ~peers.node[m].crashed]
    /\ UNCHANGED << nodeVars, codec >>

\* the transmission of node n runs into the 2000 ms timeout: no TxDone, and
\* no frame for the others
PeerTxTimesOut(n) ==
    /\ peers.node[n].mode = "Transmitting"
    /\ ~peers.node[n].crashed
    /\ peers' = [peers EXCEPT !.node[n].mode = "Idle",
                              !.node[n].onAir = <<>>,
                              !.clean = FALSE]
    /\ UNCHANGED << nodeVars, codec >>

PairNext ==
    \/ \E n \in Nodes : PeerAdd(n)
    \/ \E n \in Nodes : PeerSub(n)
    \/ \E n \in Nodes : PeerPoll(n)
    \/ \E n \in Nodes : PeerTxCompletes(n)
    \/ \E n \in Nodes : PeerTxTimesOut(n)

PairSpec == Init /\ [][PairNext]_vars

(***************************************************************************)
(* The frame format on its own: a value put through format!("Count: {}")   *)
(* and back, and arbitrary payloads put through the checks of lines        *)
(* 206-209.                                                                *)
(***************************************************************************)
\* longest suffix tried after the prefix
MaxSuffixLen == 3

\* '0' '1' '5' '6', '+' '-' ' ' 'x', the two bytes of U+00E9, and 0xFF
SuffixBytes == { 48, 49, 53, 54, 43, 45, 32, 120, 195, 169, 255 }

Suffixes == UNION { [1 .. k -> SuffixBytes] : k \in 0 .. MaxSuffixLen }

\* "Count: ", "count: ", "Count:" and nothing
Prefixes ==
    { CountPrefix,
      <<99, 111, 117, 110, 116, 58, 32>>,
      <<67, 111, 117, 110, 116, 58>>,
      <<>> }

Payloads == { p \o s : p \in Prefixes, s \in Suffixes }

CodecInit ==
    /\ InitNode
    /\ peers = PeersStart
    /\ codec \in
          { [pc |-> "encode", value |-> v, bytes |-> <<>>, result |-> None] :
                v \in 0 .. U32Max }
          \cup
          { [pc |-> "decode", value |-> 0, bytes |-> b, result |-> None] :
                b \in Payloads }

\* let msg = format!("Count: {}", *count); let buffer = msg.as_bytes();
CodecEncode ==
    /\ codec.pc = "encode"
    /\ codec' = [codec EXCEPT !.pc = "roundtrip", !.bytes = Encode(codec.value)]
    /\ UNCHANGED << nodeVars, peers >>

\* from_utf8, starts_with("Count: "), parse::<u32>() on the payload
CodecDecode ==
    /\ codec.pc \in {"decode", "roundtrip"}
    /\ codec' = [codec EXCEPT
                   !.pc = IF @ = "roundtrip" THEN "returned" ELSE "decoded",
                   !.result = Decode(codec.bytes)]
    /\ UNCHANGED << nodeVars, peers >>

CodecNext == CodecEncode \/ CodecDecode

CodecSpec == CodecInit /\ [][CodecNext]_vars

(***************************************************************************)
(* Locks: who waits for whom.                                              *)
(***************************************************************************)
Threads == {RxThread} \cup Requests

Holder(lock) ==
    CASE lock = "counter" -> counterLock
      [] lock = "display" -> displayLock
      [] lock = "lora"    -> loraLock

\* the mutex thread t is about to lock, "none" if its next step locks nothing
Wants(t) ==
    IF t = RxThread
    THEN CASE rx.pc = "sleep"       -> "lora"
           [] rx.pc = "lockcounter" -> "counter"
           [] rx.pc = "lockdisplay" -> "display"
           [] OTHER                 -> "none"
    ELSE CASE req[t].pc = "lockdisplay" -> "display"
           [] req[t].pc = "locklora"    -> "lora"
           [] OTHER                     -> "none"

\* t is blocked in lock() on a mutex that u holds
WaitsFor(t, u) ==
    /\ t # u
    /\ Wants(t) # "none"
    /\ Holder(Wants(t)) = u

\* a cycle of waiting threads; with three mutexes it has two or three threads
CircularWait ==
    \/ \E t, u \in Threads : WaitsFor(t, u) /\ WaitsFor(u, t)
    \/ \E t, u, v \in Threads : WaitsFor(t, u) /\ WaitsFor(u, v) /\ WaitsFor(v, t)

(***************************************************************************)
(* Claims.                                                                 *)
(***************************************************************************)

\* C1: the receiver loop and the /add and /sub requests take the three
\* mutexes in one consistent order, so that no interleaving of them reaches a
\* circular wait.
C1_NoCircularWait == ~CircularWait

\* C2: a decrement applied when the counter is 0 leaves the counter at 0: the
\* step neither wraps the counter to the maximum value nor faults.
C2_DecrementSaturates ==
    [][ ((\E r \in Requests : SubLockCounter(r)) /\ counter = 0)
            => (counter' = 0 /\ ~crashed') ]_vars

\* no frame has been received and no request is a decrement
OnlyIncrements ==
    /\ framesLeft = MaxFrames
    /\ \A r \in Requests : req[r].kind # "sub"

AllCompleted == \A r \in Requests : req[r].pc = "done"

\* C3: with no frame received and no decrement, the counter equals the number
\* of increments made so far; in particular it equals the initial 0 plus
\* NumRequests once all the requests have completed.
C3_NoLostIncrement ==
    (OnlyIncrements /\ NumRequests <= U32Max)
        => /\ counter = Cardinality({r \in Requests : req[r].kind = "add"})
           /\ (AllCompleted => counter = NumRequests)

\* all the increments have completed, with the receiver in the middle of a
\* poll iteration
C3_Witness ==
    /\ OnlyIncrements
    /\ AllCompleted
    /\ counter = NumRequests
    /\ rx.pc = "unlock"

\* the value of the payload the receiver read, and the step that applies it
RemoteValue == ParseU32(SubSeq(rx.buffer, Len(CountPrefix) + 1, Len(rx.buffer)))

RxApplyStep == rx.pc = "lockcounter" /\ rx'.pc # "lockcounter"

\* C4: applying a decoded remote value v overwrites the counter whatever it
\* held: the apply step leaves the counter equal to v, and the counter keeps
\* that value for as long as the receiver holds the counter mutex.  Remote
\* applies and local mutations are serialised, never merged: every change of
\* the counter is made by the thread that takes the free counter mutex in
\* that step, and is either the remote value or the previous value plus or
\* minus one.
C4_RemoteOverwrites ==
    [][ /\ RxApplyStep => (counter' = RemoteValue.val /\ counterLock' = RxThread)
        /\ (rx'.pc \in {"lockdisplay", "draw"} /\ rx'.wrote # <<>>)
               => counter' = RemoteValue'.val
        /\ counter' # counter
               => /\ counterLock = Unlocked
                  /\ \/ RxApplyStep
                     \/ \E r \in Requests :
                          /\ req[r].pc = "idle"
                          /\ counterLock' = r
                          /\ \/ req'[r].kind = "add" /\ counter' = (counter + 1) % U32Modulus
                             \/ req'[r].kind = "sub" /\ counter' = (counter - 1) % U32Modulus
      ]_vars

\* the remote 7 has just overwritten a larger value that a local request had
\* left: the display still shows the value before the apply
C4_Witness ==
    /\ rx.pc = "lockdisplay"
    /\ rx.wrote = <<7>>
    /\ counter = 7
    /\ fb > 7
    /\ \E r \in Requests : req[r].pc = "done"

\* C5: a request whose radio commands all succeed hands exactly one frame to
\* the transceiver, the frame is "Count: " followed by the decimal digits of
\* the value the request wrote, and that value is the current counter value
\* when the frame is handed over; a request with a failed command hands none.
C5_OneFramePerRequest ==
    \A r \in Requests :
        /\ req[r].pc \in {"lockdisplay", "draw", "locklora", "send"} => req[r].sent = <<>>
        /\ req[r].pc = "return" =>
              /\ Len(req[r].wrote) = 1
              /\ req[r].radio = "sent" =>
                    /\ req[r].sent = << CountPrefix \o DecimalDigits(req[r].wrote[1]) >>
                    /\ counter = req[r].wrote[1]
              /\ req[r].radio # "sent" => req[r].sent = <<>>

\* starting at 0, an increment made the counter 1 and handed over "Count: 1"
C5_Witness ==
    /\ req[1].pc = "return"
    /\ req[1].kind = "add"
    /\ req[1].radio = "sent"
    /\ req[1].sent = << <<67, 111, 117, 110, 116, 58, 32, 49>> >>
    /\ counter = 1
    /\ mode = "Transmitting"
    /\ framesLeft = MaxFrames

\* the payload is "Count: " followed by the decimal digits of v
WellFormed(buffer, v) == buffer = CountPrefix \o DecimalDigits(v)

NonNumeric(s) ==
    \/ s = <<>>
    \/ s = <<AsciiPlus>>
    \/ \E i \in 1 .. Len(s) : ~IsDigit(s[i]) /\ ~(i = 1 /\ s[i] = AsciiPlus)

\* wrong prefix, non-numeric suffix, or not valid text
Malformed(buffer) ==
    \/ ~ValidUtf8(buffer)
    \/ ~StartsWithCount(buffer)
    \/ NonNumeric(SubSeq(buffer, Len(CountPrefix) + 1, Len(buffer)))

\* a step of the receiver while it handles a ReceiveComplete event whose
\* payload is malformed
RxHandlesMalformed ==
    /\ rx' # rx
    /\ rx.pc \in {"read", "clearrx"}
    /\ rx'.got
    /\ Malformed(rx'.buffer)

\* the step applies nothing, refreshes nothing and transmits nothing
RxDiscards ==
    /\ counter' = counter
    /\ fb' = fb
    /\ mode' = mode
    /\ onAir' = onAir
    /\ req' = req
    /\ rx'.wrote = <<>>
    /\ rx'.drew = <<>>

C8_RearmedAfterTransmit ==
    (mode = "Idle") ~> (mode = "Receiving" \/ crashed \/ CircularWait)

C10_OneRefreshPerMutation ==
    /\ \A r \in Requests :
          /\ req[r].pc \in {"lockdisplay", "draw"} =>
                Len(req[r].wrote) = 1 /\ req[r].drew = <<>>
          /\ req[r].pc \in {"locklora", "send", "return"} =>
                Len(req[r].wrote) = 1 /\ req[r].drew = req[r].wrote
    /\ rx.pc \in {"lockdisplay", "draw"} => Len(rx.wrote) = 1 /\ rx.drew = <<>>
    /\ rx.pc \notin {"lockdisplay", "draw"} =>
          Len(rx.wrote) <= 1 /\ rx.drew = rx.wrote

\* a request has drawn the 8 it wrote over the remote 7, while the receiver
\* is between a mutation and its refresh in no thread
C10_Witness ==
    /\ \E r \in Requests :
          /\ req[r].pc = "locklora"
          /\ req[r].wrote = <<8>>
          /\ req[r].drew = <<8>>
    /\ fb = 8
    /\ framesLeft < MaxFrames

\* the request before r returned after a radio command of its own had failed
AfterFailedBroadcast(r) ==
    /\ r - 1 \in Requests
    /\ req[r - 1].pc = "done"
    /\ req[r - 1].radio \in RadioOutcomes \ {"sent"}

\* C11: a request one of whose radio commands failed (set_packet_params,
\* write_buffer or set_tx) has started no transmit and has not failed: when
\* it comes to return the firmware runs, the counter holds the value the
\* request wrote, the display shows it, the lora mutex is released, and the
\* response, if it can be written, carries that value.  The request that
\* follows it tries the radio commands again for the value it wrote itself,
\* and hands over the frame of that value when they succeed.
C11_RadioFailureNotFatal ==
    \A r \in Requests :
        /\ (req[r].pc = "return" /\ req[r].radio # "sent") =>
              /\ ~crashed
              /\ req[r].radio \in RadioOutcomes
              /\ Len(req[r].wrote) = 1
              /\ counter = req[r].wrote[1]
              /\ req[r].drew = req[r].wrote
              /\ fb = counter
              /\ req[r].sent = <<>>
              /\ loraLock # r
              /\ req[r].reply.some => req[r].reply.val = counter
        /\ (req[r].pc = "return" /\ AfterFailedBroadcast(r)) =>
              /\ req[r].radio \in RadioOutcomes
              /\ req[r].radio = "sent" =>
                    /\ req[r].sent = << Encode(req[r].wrote[1]) >>
                    /\ req[r].reply.some => req[r].reply.val = req[r].wrote[1]

\* the first increment could not start its transmit and returned all the
\* same; the second one has handed over "Count: 2" and answers 2
C11_Witness ==
    /\ req[1].pc = "done"
    /\ req[1].kind = "add"
    /\ req[1].radio = "tx_failed"
    /\ req[2].pc = "return"
    /\ req[2].radio = "sent"
    /\ req[2].sent = << <<67, 111, 117, 110, 116, 58, 32, 50>> >>
    /\ req[2].reply = Some(2)
    /\ counter = 2
    /\ fb = 2
    /\ mode = "Transmitting"

\* C12: the receiver thread polls the transceiver again and again, for ever,
\* whatever fails inside an iteration and whatever the requests do.  (A run
\* in which the firmware halts on an arithmetic panic is not held against the
\* claim here.)
C12_PollsForever ==
    []<>(rx.pc = "status" \/ crashed)

\* the same, for the runs in which the threads reach no circular wait either
C12_PollsForeverUnlessStuck ==
    []<>(rx.pc = "status" \/ crashed \/ CircularWait)

\* requests have stopped with nothing left in flight: no node is transmitting
\* and no node has a received frame that it has not handled yet
Quiescent ==
    \A n \in Nodes :
        /\ peers.node[n].mode # "Transmitting"
        /\ ~peers.node[n].irq.rx
        /\ ~peers.node[n].crashed

\* C13: in the two-node system, when no request is running, every frame
\* that was broadcast has reached the other node and has been handled there,
\* the counters of the nodes are equal.  (Only runs in which every command
\* succeeded, no arithmetic overflowed, no transmission timed out and every
\* frame found the other node receiving are held against the claim here.)
C13_PeersAgree ==
    (peers.clean /\ Quiescent) =>
        \A m, n \in Nodes : peers.node[m].counter = peers.node[n].counter

\* one or more decimal digits, with a value that fits the counter
PlainDecimal(s) ==
    /\ s # <<>>
    /\ \A i \in 1 .. Len(s) : IsDigit(s[i])
    /\ DigitsValue(s) <= U32Max

\* what a strict decode returns for a payload
StrictDecode(bytes) ==
    LET s == SubSeq(bytes, Len(CountPrefix) + 1, Len(bytes))
    IN  IF ValidUtf8(bytes) /\ StartsWithCount(bytes) /\ PlainDecimal(s)
        THEN Some(DigitsValue(s))
        ELSE None

\* C14: decode yields a value only for "Count: " followed by plain decimal
\* digits of a value that fits 32 bits, and that value; for every other
\* payload (wrong or missing prefix, empty suffix, a sign or another
\* non-digit in the suffix, too large a value, invalid text) it yields
\* nothing.
C14_DecodeStrict ==
    codec.pc = "decoded" => codec.result = StrictDecode(codec.bytes)

\* the same, but for the payloads whose suffix starts with '+'
C14_DecodeStrictButPlus ==
    (/\ codec.pc = "decoded"
     /\ ~(/\ StartsWithCount(codec.bytes)
          /\ Len(codec.bytes) > Len(CountPrefix)
          /\ codec.bytes[Len(CountPrefix) + 1] = AsciiPlus))
        => codec.result = StrictDecode(codec.bytes)

\* C15: decoding the frame that encodes v yields v, for every value v of the
\* counter.
C15_RoundTrip ==
    codec.pc = "returned" =>
        /\ codec.bytes = CountPrefix \o DecimalDigits(codec.value)
        /\ codec.result = Some(codec.value)

\* the largest value came back from its frame
C15_Witness ==
    /\ codec.pc = "returned"
    /\ codec.value = U32Max
    /\ codec.value >= 10
    /\ Len(codec.bytes) > Len(CountPrefix) + 1
    /\ codec.result = Some(U32Max)

\* C16: an increment applied when the counter holds the maximum value leaves
\* the counter at the maximum: the step neither wraps the counter to 0 nor
\* faults.  (Stated for the runs without a decrement, in which the maximum
\* can only have come from a received frame.)
C16_IncrementSaturates ==
    [][ (/\ \E r \in Requests : AddLockCounter(r)
         /\ counter = U32Max
         /\ \A q \in Requests : req[q].kind # "sub")
            => (counter' = U32Max /\ ~crashed') ]_vars

StartsTransmit ==
    \E r \in Requests :
        /\ req[r].pc = "send"
        /\ req'[r].pc = "return"
        /\ req'[r].radio = "sent"

\* C18: a transmit is started only when the transceiver is Idle or Receiving,
\* never while an earlier transmit is still in its Transmitting window.
C18_TransmitFromIdleOrReceiving ==
    [][ StartsTransmit => mode \in {"Idle", "Receiving"} ]_vars

\* a step of the receiver thread
RxStep == rx' # rx

\* C19: applying a remote update never causes a transmit.  A step of the
\* receiver thread changes only the counter, the display, the interrupt flags
\* and the receive mode: it starts no transmission, puts no frame on the air
\* and leaves the requests alone.  Every transmission is started by a request,
\* that is, by a local increment or decrement.
C19_ApplyNeverTransmits ==
    [][ /\ RxStep =>
              /\ mode' \in {mode, "Receiving"}
              /\ onAir' \in {onAir, <<>>}
              /\ req' = req
              /\ rxBuf' = rxBuf
        /\ (mode' = "Transmitting" /\ (mode # "Transmitting" \/ onAir' # onAir))
              => StartsTransmit
      ]_vars

\* the receiver has applied and drawn the remote 7 and cleared the flag; no
\* request has arrived, nothing is or was on the air, and the transceiver is
\* still receiving
C19_Witness ==
    /\ rx.pc = "unlock"
    /\ rx.wrote = <<7>>
    /\ rx.drew = <<7>>
    /\ rx.clearRxOk
    /\ \A r \in Requests : req[r].pc = "idle"
    /\ mode = "Receiving"
    /\ onAir = <<>>
    /\ ~irq.tx

\* C20: whenever no thread holds the counter mutex, the value last drawn on
\* the display is the value of the counter.
C20_DisplayShowsCounter ==
    counterLock = Unlocked => fb = counter

\* every request has returned and every frame has been handled: the counter
\* mutex is free and the display shows the counter, which is not the initial
\* 0 any more
C20_Witness ==
    /\ counterLock = Unlocked
    /\ \A r \in Requests : req[r].pc = "done"
    /\ framesLeft = 0
    /\ ~irq.rx
    /\ rx.pc = "sleep"
    /\ counter = 9
    /\ fb = 9

=============================================================================
